---- MODULE Spec2Model ----
(***************************************************************************)
(* Assessment builder: the editor (AssessmentBuilder, BuilderSidebar,      *)
(* SectionBuilder, QuestionBuilder), the useAssessment hook and the        *)
(* LivePreview session, as a state machine.                                *)
(*                                                                         *)
(* Encodings.  JavaScript strings are TLA+ strings.  An entity id is the   *)
(* triple <<prefix, t, r>> for the template `${prefix}-${t}` (r = 0) or    *)
(* `${prefix}-${t}-${r}` (r > 0); ids that were not minted in this run     *)
(* carry t < 0.  An optional field is a set with at most one element.  A   *)
(* response value is a tagged record (undefined / null / string / list).   *)
(* `now` is the reading of Date.now(): an abstract, ordered instant that   *)
(* only the Tick action advances.                                          *)
(***************************************************************************)
EXTENDS Integers, Sequences, FiniteSets, TLC

VARIABLES
    assessment,           \* useAssessment: the in-memory Assessment
    stored,               \* localStorage['current-assessment'] ({} = absent)
    now,                  \* Date.now()
    selectedQuestion,     \* AssessmentBuilder: selected question id ({} = null)
    timers,               \* pending setTimeout callbacks of the sidebar
    autosave,             \* the assessment the auto-save interval closes over
    consoleLog,           \* the messages written to the console
    drafts,               \* the inline editors' useState: isEditing flags and temp texts
    isPreviewVisible,     \* AssessmentBuilder: LivePreview mounted
    responses,            \* LivePreview: question id -> value
    currentSectionIndex,  \* LivePreview: zero-based index
    isTestMode,           \* LivePreview
    validationErrors,     \* LivePreview: question id -> message
    vQuestion,            \* function harness: argument `question`
    vValue,               \* function harness: argument `value`
    vResult               \* function harness: result ({} = not run)

vars == <<assessment, stored, now, selectedQuestion, timers, autosave, consoleLog,
          drafts,
          isPreviewVisible, responses, currentSectionIndex, isTestMode,
          validationErrors, vQuestion, vValue, vResult>>

editorVars == <<assessment, stored, now, selectedQuestion, timers, autosave>>
sessionVars == <<responses, currentSectionIndex, isTestMode, validationErrors>>
harnessVars == <<vQuestion, vValue, vResult>>

----------------------------------------------------------------------------
(* Bounds *)

MaxClock == 1
MaxSections == 2
MaxQuestions == 1
MaxTimers == 1
MaxRand == 1
MaxTitleLen == 18

----------------------------------------------------------------------------
(* Generic helpers *)

Range(s) == {s[i] : i \in DOMAIN s}

MapSeq(s, F(_)) == [i \in DOMAIN s |-> F(s[i])]

RECURSIVE SumSeq(_)
SumSeq(s) == IF s = <<>> THEN 0 ELSE Head(s) + SumSeq(Tail(s))

RECURSIVE FlatSeq(_)
FlatSeq(ss) == IF ss = <<>> THEN <<>> ELSE Head(ss) \o FlatSeq(Tail(ss))

EmptyMap == [k \in {} |-> {}]

MapPut(m, k, v) == [x \in (DOMAIN m) \cup {k} |-> IF x = k THEN v ELSE m[x]]

MapDel(m, k) == [x \in (DOMAIN m) \ {k} |-> m[x]]

----------------------------------------------------------------------------
(* Domain model *)

QuestionTypes ==
    {"single-choice", "multi-choice", "short-text", "long-text", "numeric", "file-upload"}

SectionId(t) == <<"section", t, 0>>
QuestionId(t) == <<"question", t, 0>>
QuestionIdRandom(t, r) == <<"question", t, r>>

NoValidation == {}
NoConditional == {}

ValidationRule(minL, maxL, minV, maxV) ==
    [minLength |-> minL, maxLength |-> maxL, minValue |-> minV, maxValue |-> maxV]

ConditionalLogic(dep, cond, val) ==
    [dependsOn |-> dep, condition |-> cond, value |-> val]

Question(id, type, title, required, order, validation, conditional, options) ==
    [id |-> id, type |-> type, title |-> title, required |-> required,
     order |-> order, validation |-> validation, conditional |-> conditional,
     options |-> options]

Section(id, title, order, questions, isExpanded) ==
    [id |-> id, title |-> title, order |-> order, questions |-> questions,
     isExpanded |-> isExpanded]

(* Response values *)
Undefined == [k |-> "undefined"]
Null == [k |-> "null"]
Str(s) == [k |-> "string", s |-> s]
List(l) == [k |-> "list", l |-> l]
Num(n) == [k |-> "number", n |-> n]

AllQuestions(a) == FlatSeq(MapSeq(a.sections, LAMBDA s : s.questions))

----------------------------------------------------------------------------
(* useAssessment: persistence and commit *)

\* new Date(null): 1970-01-01, before every instant of a run
Epoch == -2

\* the Date whose time value is NaN ("Invalid Date")
InvalidDate == -3

\* Date.prototype.toJSON: the ISO string, or null for an invalid date
ToISOString(d) == IF d = InvalidDate THEN <<"null", 0>> ELSE <<"iso", d>>

JSONstringify(a) ==
    [a EXCEPT !.createdAt = ToISOString(a.createdAt),
              !.updatedAt = ToISOString(a.updatedAt)]

\* new Date(x) for a JSON value x: an ISO string, null, or anything else
\* (undefined, text that is not a date)
NewDate(x) ==
    CASE x[1] = "iso" -> x[2]
      [] x[1] = "null" -> Epoch
      [] OTHER -> InvalidDate

\* parsed[field]
Field(parsed, field) == IF field \in DOMAIN parsed THEN parsed[field] ELSE <<"undefined", 0>>

\* { ...parsed, createdAt: new Date(parsed.createdAt), updatedAt: ... }
LoadSaved(saved) ==
    [f \in DOMAIN saved \cup {"createdAt", "updatedAt"} |->
        IF f \in {"createdAt", "updatedAt"} THEN NewDate(Field(saved, f)) ELSE saved[f]]

\* mutant: the commit keeps the caller's updatedAt
updateAssessment_NoStamp(newAssessment) == newAssessment

updateAssessment(newAssessment) == [newAssessment EXCEPT !.updatedAt = now]

\* mutant: the interval is set once, on mount, and keeps that render's closure
autosaveEffect_MountOnly(interval, a) == IF interval = {} THEN {a} ELSE interval

\* the auto-save effect, re-run when `assessment` changes: the old interval is
\* cleared and the new one closes over the new assessment
autosaveEffect(interval, a) == {a}

onUpdateAssessment(newAssessment) ==
    /\ assessment' = updateAssessment(newAssessment)
    /\ stored' = {JSONstringify(updateAssessment(newAssessment))}
    /\ autosave' = autosaveEffect(autosave, updateAssessment(newAssessment))

----------------------------------------------------------------------------
(* Question Type Registry (BuilderSidebar) *)

DefaultOptions == <<"Option 1", "Option 2", "Option 3">>

questionTypes ==
    [t \in QuestionTypes |->
        CASE t = "single-choice" ->
                [title |-> "New Single Choice Question", options |-> DefaultOptions]
          [] t = "multi-choice" ->
                [title |-> "New Multiple Choice Question", options |-> DefaultOptions]
          [] t = "short-text" ->
                [title |-> "New Short Text Question", options |-> <<>>]
          [] t = "long-text" ->
                [title |-> "New Long Text Question", options |-> <<>>]
          [] t = "numeric" ->
                [title |-> "New Numeric Question", options |-> <<>>]
          [] OTHER ->
                [title |-> "New File Upload Question", options |-> <<>>]]

\* the first render gets through: AssessmentBuilder maps over assessment.sections
Renderable(a) == "sections" \in DOMAIN a

----------------------------------------------------------------------------
(* Inline editors: AssessmentHeader, SectionBuilder, QuestionBuilder *)

\* useState(false), useState(x.title) of a mounting component
TitleDraft(title) == [isEditingTitle |-> FALSE, tempTitle |-> title]

\* AssessmentHeader's four useState cells at mount
HeaderDraft(a) ==
    [isEditingTitle |-> FALSE, tempTitle |-> Field(a, "title"),
     isEditingDescription |-> FALSE, tempDescription |-> Field(a, "description")]

\* the question cards on screen: those of the expanded sections
MountedQuestions(a) ==
    FlatSeq(MapSeq(a.sections, LAMBDA s : IF s.isExpanded THEN s.questions ELSE <<>>))

\* the first element of seq with the given id (React key)
Keyed(seq, id) == seq[CHOOSE i \in DOMAIN seq : seq[i].id = id /\ \A j \in 1..(i - 1) : seq[j].id # id]

\* the first render of the page
mount(a) ==
    LET shown == IF Renderable(a) THEN MountedQuestions(a) ELSE <<>>
        cards == IF Renderable(a) THEN a.sections ELSE <<>>
    IN  [header |-> HeaderDraft(a),
         sections |-> [id \in {s.id : s \in Range(cards)} |->
                        TitleDraft(Keyed(cards, id).title)],
         questions |-> [id \in {q.id : q \in Range(shown)} |->
                        TitleDraft(Keyed(shown, id).title)]]

\* a re-render with assessment a: a component that stays mounted keeps its
\* state, one that mounts initialises it, one that unmounts loses it
render(d, a) ==
    LET m == mount(a)
    IN  [header |-> d.header,
         sections |-> [id \in DOMAIN m.sections |->
                        IF id \in DOMAIN d.sections THEN d.sections[id] ELSE m.sections[id]],
         questions |-> [id \in DOMAIN m.questions |->
                        IF id \in DOMAIN d.questions THEN d.questions[id] ELSE m.questions[id]]]

\* AssessmentHeader.handleSaveTitle: the object handed to onUpdateAssessment
handleSaveTitle(a, tempTitle) == [a EXCEPT !.title = tempTitle]

\* AssessmentHeader.handleSaveDescription
handleSaveDescription(a, tempDescription) == [a EXCEPT !.description = tempDescription]

----------------------------------------------------------------------------
(* Tree mutations: SectionBuilder *)

\* updateSection with { questions: qs }
updateSectionQuestions(a, sectionId, qs) ==
    [a EXCEPT !.sections =
        MapSeq(a.sections, LAMBDA s : IF s.id = sectionId THEN [s EXCEPT !.questions = qs] ELSE s)]

\* mutant: an id that matches no section falls back to every section
updateSectionExpanded_Fallback(a, sectionId, e) ==
    [a EXCEPT !.sections =
        MapSeq(a.sections, LAMBDA s :
            IF s.id = sectionId \/ (\A t \in Range(a.sections) : t.id # sectionId)
            THEN [s EXCEPT !.isExpanded = e] ELSE s)]

\* updateSection with { isExpanded: e }
updateSectionExpanded(a, sectionId, e) ==
    [a EXCEPT !.sections =
        MapSeq(a.sections, LAMBDA s : IF s.id = sectionId THEN [s EXCEPT !.isExpanded = e] ELSE s)]

\* updateSection with { title }
updateSectionTitle(a, sectionId, title) ==
    [a EXCEPT !.sections =
        MapSeq(a.sections, LAMBDA s : IF s.id = sectionId THEN [s EXCEPT !.title = title] ELSE s)]

deleteSection(a, section) ==
    [a EXCEPT !.sections = SelectSeq(a.sections, LAMBDA s : s.id # section.id)]

\* rs[i] is the Math.random() draw for the i-th question of the copy
duplicateSection(a, section, rs) ==
    [a EXCEPT !.sections = Append(a.sections,
        [section EXCEPT
            !.id = SectionId(now),
            !.title = section.title \o " (Copy)",
            !.order = Len(a.sections),
            !.questions = [i \in DOMAIN section.questions |->
                [section.questions[i] EXCEPT !.id = QuestionIdRandom(now, rs[i])]]])]

sectionAddQuestion(a, section) ==
    updateSectionQuestions(a, section.id,
        Append(section.questions,
            Question(QuestionId(now), "short-text", "New Question", FALSE,
                     Len(section.questions), NoValidation, NoConditional, <<>>)))

sectionUpdateQuestion(a, section, questionId, required) ==
    updateSectionQuestions(a, section.id,
        MapSeq(section.questions,
            LAMBDA q : IF q.id = questionId THEN [q EXCEPT !.required = required] ELSE q))

\* updateQuestion with { title }
sectionUpdateQuestionTitle(a, section, questionId, title) ==
    updateSectionQuestions(a, section.id,
        MapSeq(section.questions,
            LAMBDA q : IF q.id = questionId THEN [q EXCEPT !.title = title] ELSE q))

deleteQuestion(a, section, questionId) ==
    updateSectionQuestions(a, section.id,
        SelectSeq(section.questions, LAMBDA q : q.id # questionId))

\* the selection after deleteQuestion
deleteQuestionSelection(sel, questionId) ==
    IF sel = {questionId} THEN {} ELSE sel

\* the selection after deleteSection: the handler never touches it
deleteSectionSelection(sel, section) == sel

----------------------------------------------------------------------------
(* Tree mutations: BuilderSidebar *)

sidebarAddQuestion(a, sectionId, questionType) ==
    [a EXCEPT !.sections =
        MapSeq(a.sections, LAMBDA s :
            IF s.id = sectionId
            THEN [s EXCEPT !.questions = Append(s.questions,
                    Question(QuestionId(now), questionType,
                             questionTypes[questionType].title, FALSE,
                             Len(s.questions), NoValidation, NoConditional,
                             questionTypes[questionType].options))]
            ELSE s)]

sidebarUpdateQuestion(a, questionId, required) ==
    [a EXCEPT !.sections =
        MapSeq(a.sections, LAMBDA s :
            [s EXCEPT !.questions =
                MapSeq(s.questions, LAMBDA q :
                    IF q.id = questionId THEN [q EXCEPT !.required = required] ELSE q)])]

\* updateQuestion with { title }
sidebarUpdateQuestionTitle(a, questionId, title) ==
    [a EXCEPT !.sections =
        MapSeq(a.sections, LAMBDA s :
            [s EXCEPT !.questions =
                MapSeq(s.questions, LAMBDA q :
                    IF q.id = questionId THEN [q EXCEPT !.title = title] ELSE q)])]

selectedQuestionData(a, sel) ==
    {q \in Range(AllQuestions(a)) : sel = {q.id}}

----------------------------------------------------------------------------
(* Tree mutations: AssessmentBuilder *)

addNewSection(a) ==
    [a EXCEPT !.sections = Append(a.sections,
        Section(SectionId(now), "New Section", Len(a.sections), <<>>, TRUE))]

reorderItems(a, activeId, overId) == a

----------------------------------------------------------------------------
(* JavaScript coercions used by LivePreview *)

Digits == "0123456789"

IsDigit(c) == \E d \in 1..10 : SubSeq(Digits, d, d) = c

DigitVal(c) == (CHOOSE d \in 1..10 : SubSeq(Digits, d, d) = c) - 1

AllDigits(s) == Len(s) > 0 /\ \A i \in 1..Len(s) : IsDigit(SubSeq(s, i, i))

RECURSIVE ParseDigits(_)
ParseDigits(s) ==
    IF Len(s) = 0 THEN 0
    ELSE ParseDigits(SubSeq(s, 1, Len(s) - 1)) * 10 + DigitVal(SubSeq(s, Len(s), Len(s)))

\* Number(string): {} is NaN, {n} is the number n
StringToNumber(s) ==
    IF s = "" THEN {0}
    ELSE IF AllDigits(s) THEN {ParseDigits(s)}
    ELSE IF SubSeq(s, 1, 1) = "-" /\ AllDigits(SubSeq(s, 2, Len(s)))
         THEN {0 - ParseDigits(SubSeq(s, 2, Len(s)))}
    ELSE {}

RECURSIVE NatToStr(_)
NatToStr(n) ==
    IF n < 10 THEN SubSeq(Digits, n + 1, n + 1)
    ELSE NatToStr(n \div 10) \o SubSeq(Digits, (n % 10) + 1, (n % 10) + 1)

RECURSIVE Join(_)
Join(l) ==
    IF Len(l) = 0 THEN ""
    ELSE IF Len(l) = 1 THEN l[1]
    ELSE l[1] \o "," \o Join(Tail(l))

\* String(v)
JSString(v) ==
    CASE v.k = "undefined" -> "undefined"
      [] v.k = "null" -> "null"
      [] v.k = "string" -> v.s
      [] v.k = "list" -> Join(v.l)
      [] OTHER -> IF v.n < 0 THEN "-" \o NatToStr(0 - v.n) ELSE NatToStr(v.n)

\* Number(v)
ToNumber(v) ==
    CASE v.k = "undefined" -> {}
      [] v.k = "null" -> {0}
      [] v.k = "number" -> {v.n}
      [] OTHER -> StringToNumber(JSString(v))

\* the truthiness of v
Truthy(v) ==
    CASE v.k = "undefined" -> FALSE
      [] v.k = "null" -> FALSE
      [] v.k = "string" -> v.s # ""
      [] v.k = "number" -> v.n # 0
      [] OTHER -> TRUE

\* mutant: a == b, which compares a string and a number by value
StrictEquals_Loose(a, b) == a.k \in {"string", "number"} /\ ToNumber(a) = ToNumber(b)

\* a === b for a response value and a JSON scalar
StrictEquals(a, b) == a.k \in {"string", "number"} /\ a = b

\* s.includes(sub)
Includes(s, sub) ==
    \E i \in 1..(Len(s) - Len(sub) + 1) : SubSeq(s, i, i + Len(sub) - 1) = sub

Lookup(m, key) == IF key \in DOMAIN m THEN m[key] ELSE Undefined

----------------------------------------------------------------------------
(* LivePreview: validation *)

NoError == <<>>
RequiredError == <<"This field is required">>
MinValueError(n) == <<"Value must be at least", n>>
MaxValueError(n) == <<"Value must be at most", n>>
MinLengthError(n) == <<"Must be at least characters", n>>
MaxLengthError(n) == <<"Must be at most characters", n>>

\* mutant: the empty list passes the required check
IsEmptyValue_NoList(value) == ~Truthy(value)

IsEmptyValue(value) == ~Truthy(value) \/ (value.k = "list" /\ Len(value.l) = 0)

\* mutant: the upper bound is never compared
numericError_MinOnly(rule, numValue) ==
    IF \E m \in rule.minValue : \E n \in numValue : n < m
    THEN MinValueError(CHOOSE m \in rule.minValue : TRUE)
    ELSE NoError

\* mutant: the bounds are exclusive
numericError_Exclusive(rule, numValue) ==
    IF \E m \in rule.minValue : \E n \in numValue : n <= m
    THEN MinValueError(CHOOSE m \in rule.minValue : TRUE)
    ELSE IF \E m \in rule.maxValue : \E n \in numValue : n >= m
    THEN MaxValueError(CHOOSE m \in rule.maxValue : TRUE)
    ELSE NoError

numericError(rule, numValue) ==
    IF \E m \in rule.minValue : \E n \in numValue : n < m
    THEN MinValueError(CHOOSE m \in rule.minValue : TRUE)
    ELSE IF \E m \in rule.maxValue : \E n \in numValue : n > m
    THEN MaxValueError(CHOOSE m \in rule.maxValue : TRUE)
    ELSE NoError

\* mutant: the upper length bound is never compared
textError_MinOnly(rule, textValue) ==
    IF \E m \in rule.minLength : Len(textValue) < m
    THEN MinLengthError(CHOOSE m \in rule.minLength : TRUE)
    ELSE NoError

textError(rule, textValue) ==
    IF \E m \in rule.minLength : Len(textValue) < m
    THEN MinLengthError(CHOOSE m \in rule.minLength : TRUE)
    ELSE IF \E m \in rule.maxLength : Len(textValue) > m
    THEN MaxLengthError(CHOOSE m \in rule.maxLength : TRUE)
    ELSE NoError

validateQuestion(question, value) ==
    IF question.required /\ IsEmptyValue(value) THEN RequiredError
    ELSE IF question.type = "numeric" /\ question.validation # {}
            /\ numericError(CHOOSE r \in question.validation : TRUE, ToNumber(value)) # NoError
    THEN numericError(CHOOSE r \in question.validation : TRUE, ToNumber(value))
    ELSE IF question.type \in {"short-text", "long-text"} /\ question.validation # {}
    THEN textError(CHOOSE r \in question.validation : TRUE,
                   IF Truthy(value) THEN JSString(value) ELSE "")
    ELSE NoError

\* renderQuestion: the conditional-logic switch
shouldShow(question, resp) ==
    \A c \in question.conditional :
        CASE c.condition = "equals" -> StrictEquals(Lookup(resp, c.dependsOn), c.value)
          [] c.condition = "not-equals" -> ~StrictEquals(Lookup(resp, c.dependsOn), c.value)
          [] c.condition = "contains" ->
                Includes(IF Truthy(Lookup(resp, c.dependsOn))
                         THEN JSString(Lookup(resp, c.dependsOn)) ELSE "",
                         JSString(c.value))
          [] OTHER -> TRUE

\* the questions a validation pass iterates over: all of them, shown or not
validatedQuestions(section, resp) == section.questions

RECURSIVE collectErrors(_, _, _)
collectErrors(qs, resp, errors) ==
    IF qs = <<>> THEN errors
    ELSE collectErrors(Tail(qs), resp,
            IF validateQuestion(Head(qs), Lookup(resp, Head(qs).id)) # NoError
            THEN MapPut(errors, Head(qs).id, validateQuestion(Head(qs), Lookup(resp, Head(qs).id)))
            ELSE errors)

currentSection(a, idx) ==
    IF idx + 1 \in DOMAIN a.sections THEN {a.sections[idx + 1]} ELSE {}

\* validateCurrentSection: the error map it leaves and the boolean it returns
validateCurrentSection(a, idx, resp, errs) ==
    IF currentSection(a, idx) = {} THEN [errors |-> errs, ok |-> TRUE]
    ELSE LET section == CHOOSE s \in currentSection(a, idx) : TRUE
             errors == collectErrors(validatedQuestions(section, resp), resp, EmptyMap)
         IN [errors |-> errors, ok |-> (DOMAIN errors = {})]

\* mutant: Next advances without looking at the validation result
goToNextSection_NoGate(ok, idx, n) == IF idx < n - 1 THEN idx + 1 ELSE idx

goToNextSection(ok, idx, n) == IF ok /\ idx < n - 1 THEN idx + 1 ELSE idx

goToPreviousSection(idx) == IF idx > 0 THEN idx - 1 ELSE idx

\* mutant: answering keeps the question's error entry
updateResponseErrors_Keep(errs, questionId) == errs

\* updateResponse: the error map it leaves
updateResponseErrors(errs, questionId) ==
    IF questionId \in DOMAIN errs THEN MapDel(errs, questionId) ELSE errs

totalQuestions(a) == SumSeq(MapSeq(a.sections, LAMBDA s : Len(s.questions)))

\* mutant: only non-empty answers count
answeredQuestions_Truthy(resp) == Cardinality({k \in DOMAIN resp : Truthy(resp[k])})

answeredQuestions(resp) == Cardinality(DOMAIN resp)

RECURSIVE GCD(_, _)
GCD(a, b) == IF b = 0 THEN a ELSE GCD(b, a % b)

\* the number n / d, in lowest terms
Ratio(n, d) == <<n \div GCD(n, d), d \div GCD(n, d)>>

\* progress, a percentage
progress(a, resp) ==
    IF totalQuestions(a) > 0
    THEN Ratio(answeredQuestions(resp) * 100, totalQuestions(a))
    ELSE Ratio(0, 1)

----------------------------------------------------------------------------
(* Inputs *)

AddableTypes == {"multi-choice", "numeric"}
TextInputs == {"", "ok"}
NumberInputs == {"", "100", "25"}

Q1 == Question(<<"question", -1, 0>>, "single-choice", "Eligible", FALSE, 0,
               NoValidation, NoConditional, <<"yes", "no">>)
Q2 == Question(<<"question", -2, 0>>, "short-text", "Details", TRUE, 1,
               NoValidation, {ConditionalLogic(Q1.id, "equals", Str("yes"))}, <<>>)
Q3 == Question(<<"question", -3, 0>>, "numeric", "Years", TRUE, 0,
               {ValidationRule({}, {}, {0}, {50})}, NoConditional, <<>>)

Screening(order) == Section(<<"section", -1, 0>>, "Screening", order, <<Q1, Q2>>, TRUE)
Experience(order) == Section(<<"section", -2, 0>>, "Experience", order, <<Q3>>, TRUE)
Culture(order) == Section(<<"section", -3, 0>>, "Culture", order, <<>>, FALSE)

SavedAssessment(sections) ==
    [id |-> "assessment-1", jobId |-> "job-1", title |-> "Assessment",
     description |-> "", sections |-> sections,
     createdAt |-> ToISOString(-1), updatedAt |-> ToISOString(-1)]

\* blobs found under 'current-assessment' at start-up
SavedBlobs ==
    {SavedAssessment(<<Screening(0), Experience(1), Culture(2)>>), SavedAssessment(<<>>)}

PreviewBlobs == {SavedAssessment(<<Experience(0), Screening(1)>>)}

HarnessIdle == <<Q1, Undefined, {}>>

----------------------------------------------------------------------------
(* Initial state: useAssessment's loader and the useState defaults *)

InitFrom(blobs) ==
    /\ \E saved \in blobs :
        /\ stored = {saved}
        /\ assessment = LoadSaved(saved)
        /\ autosave = autosaveEffect({}, LoadSaved(saved))
    /\ consoleLog = {}
    /\ drafts = mount(assessment)
    /\ now = 0
    /\ selectedQuestion = {}
    /\ timers = <<>>
    /\ isPreviewVisible = TRUE
    /\ responses = EmptyMap
    /\ currentSectionIndex = 0
    /\ isTestMode = FALSE
    /\ validationErrors = EmptyMap
    /\ vQuestion = HarnessIdle[1]
    /\ vValue = HarnessIdle[2]
    /\ vResult = HarnessIdle[3]

Init == InitFrom(SavedBlobs)

InitPreview == InitFrom(PreviewBlobs)

----------------------------------------------------------------------------
(* Editor actions *)

Tick ==
    /\ now < MaxClock
    /\ now' = now + 1
    /\ UNCHANGED <<assessment, stored, selectedQuestion, timers, autosave, isPreviewVisible>>
    /\ UNCHANGED <<consoleLog, drafts>> /\ UNCHANGED sessionVars /\ UNCHANGED harnessVars

EditorFrame ==
    /\ drafts' = render(drafts, assessment')
    /\ UNCHANGED <<now, isPreviewVisible, consoleLog>>
    /\ UNCHANGED sessionVars /\ UNCHANGED harnessVars

AddNewSection ==
    /\ Len(assessment.sections) < MaxSections
    /\ onUpdateAssessment(addNewSection(assessment))
    /\ UNCHANGED <<selectedQuestion, timers>>
    /\ EditorFrame

\* sidebar question-type button, no section yet: default section now,
\* the question in a timeout that keeps this render's closure
SidebarAddFirst ==
    /\ Len(assessment.sections) = 0
    /\ Len(timers) < MaxTimers
    /\ \E questionType \in AddableTypes :
        /\ onUpdateAssessment([assessment EXCEPT !.sections =
                <<Section(SectionId(now), "Section 1", 0, <<>>, TRUE)>>])
        /\ timers' = Append(timers,
                [assessment |-> assessment, sectionId |-> SectionId(now),
                 questionType |-> questionType, at |-> now])
    /\ UNCHANGED selectedQuestion
    /\ EditorFrame

\* the timeout callback: addQuestion of the render that scheduled it
SidebarAddDeferred ==
    /\ timers # <<>>
    /\ now > Head(timers).at
    /\ onUpdateAssessment(sidebarAddQuestion(Head(timers).assessment,
            Head(timers).sectionId, Head(timers).questionType))
    /\ timers' = Tail(timers)
    /\ UNCHANGED selectedQuestion
    /\ EditorFrame

SidebarAddQuestion ==
    /\ Len(assessment.sections) > 0
    /\ \A s \in Range(assessment.sections) :
        s.id = assessment.sections[1].id => Len(s.questions) < MaxQuestions
    /\ \E questionType \in AddableTypes :
        onUpdateAssessment(sidebarAddQuestion(assessment, assessment.sections[1].id, questionType))
    /\ UNCHANGED <<selectedQuestion, timers>>
    /\ EditorFrame

SectionAddQuestion ==
    /\ \E i \in DOMAIN assessment.sections :
        /\ assessment.sections[i].isExpanded
        /\ Len(assessment.sections[i].questions) < MaxQuestions
        /\ onUpdateAssessment(sectionAddQuestion(assessment, assessment.sections[i]))
    /\ UNCHANGED <<selectedQuestion, timers>>
    /\ EditorFrame

ToggleExpanded ==
    /\ \E i \in DOMAIN assessment.sections :
        onUpdateAssessment(updateSectionExpanded(assessment, assessment.sections[i].id,
                                                 ~assessment.sections[i].isExpanded))
    /\ UNCHANGED <<selectedQuestion, timers>>
    /\ EditorFrame

DeleteSection ==
    /\ \E i \in DOMAIN assessment.sections :
        /\ onUpdateAssessment(deleteSection(assessment, assessment.sections[i]))
        /\ selectedQuestion' = deleteSectionSelection(selectedQuestion, assessment.sections[i])
    /\ UNCHANGED timers
    /\ EditorFrame

DuplicateSection ==
    /\ Len(assessment.sections) < MaxSections
    /\ \E i \in DOMAIN assessment.sections :
        /\ Len(assessment.sections[i].title) + 7 <= MaxTitleLen
        /\ \E rs \in [DOMAIN assessment.sections[i].questions -> 1..MaxRand] :
            onUpdateAssessment(duplicateSection(assessment, assessment.sections[i], rs))
    /\ UNCHANGED <<selectedQuestion, timers>>
    /\ EditorFrame

DeleteQuestion ==
    /\ \E i \in DOMAIN assessment.sections :
        /\ assessment.sections[i].isExpanded
        /\ \E j \in DOMAIN assessment.sections[i].questions :
            /\ onUpdateAssessment(deleteQuestion(assessment, assessment.sections[i],
                                                 assessment.sections[i].questions[j].id))
            /\ selectedQuestion' = deleteQuestionSelection(selectedQuestion,
                                        assessment.sections[i].questions[j].id)
    /\ UNCHANGED timers
    /\ EditorFrame

\* the eye button of a question card: select, or deselect when selected
SelectQuestion ==
    /\ \E i \in DOMAIN assessment.sections :
        /\ assessment.sections[i].isExpanded
        /\ \E j \in DOMAIN assessment.sections[i].questions :
            selectedQuestion' =
                IF selectedQuestion = {assessment.sections[i].questions[j].id}
                THEN {} ELSE {assessment.sections[i].questions[j].id}
    /\ UNCHANGED <<assessment, stored, timers, autosave>>
    /\ EditorFrame

\* the Required switch of the selected question's card
ToggleRequired ==
    /\ \E i \in DOMAIN assessment.sections :
        /\ assessment.sections[i].isExpanded
        /\ \E j \in DOMAIN assessment.sections[i].questions :
            /\ selectedQuestion = {assessment.sections[i].questions[j].id}
            /\ onUpdateAssessment(sectionUpdateQuestion(assessment, assessment.sections[i],
                    assessment.sections[i].questions[j].id,
                    ~assessment.sections[i].questions[j].required))
    /\ UNCHANGED <<selectedQuestion, timers>>
    /\ EditorFrame

\* handleDragEnd for the drag of section card `activeId` released over `over`
\* (a section card, or {} for no drop target)
handleDragEnd(activeId, over) ==
    /\ IF over = {} \/ over = {activeId}
       THEN UNCHANGED <<assessment, stored, autosave>>
       ELSE onUpdateAssessment(reorderItems(assessment, activeId, CHOOSE o \in over : TRUE))
    /\ UNCHANGED <<selectedQuestion, timers>>
    /\ EditorFrame

DragEnd ==
    \E i \in DOMAIN assessment.sections :
        \E over \in {{}} \cup {{assessment.sections[k].id} : k \in DOMAIN assessment.sections} :
            handleDragEnd(assessment.sections[i].id, over)

\* the Show/Hide Preview button: hiding unmounts LivePreview, showing mounts
\* a fresh one
TogglePreviewVisible ==
    /\ isPreviewVisible' = ~isPreviewVisible
    /\ responses' = EmptyMap
    /\ currentSectionIndex' = 0
    /\ isTestMode' = FALSE
    /\ validationErrors' = EmptyMap
    /\ UNCHANGED editorVars /\ UNCHANGED <<consoleLog, drafts>> /\ UNCHANGED harnessVars

----------------------------------------------------------------------------
(* LivePreview actions *)

SessionFrame ==
    /\ UNCHANGED editorVars /\ UNCHANGED isPreviewVisible /\ UNCHANGED harnessVars
    /\ UNCHANGED <<consoleLog, drafts>>

navigationShown ==
    /\ isPreviewVisible
    /\ isTestMode
    /\ Len(assessment.sections) > 1
    /\ currentSection(assessment, currentSectionIndex) # {}

ToggleTestMode ==
    /\ isPreviewVisible
    /\ isTestMode' = ~isTestMode
    /\ UNCHANGED <<responses, currentSectionIndex, validationErrors>>
    /\ SessionFrame

updateResponse(questionId, value) ==
    /\ responses' = MapPut(responses, questionId, value)
    /\ validationErrors' = updateResponseErrors(validationErrors, questionId)
    /\ UNCHANGED <<currentSectionIndex, isTestMode>>
    /\ SessionFrame

\* [...currentValues]
Spread(value) ==
    CASE value.k = "list" -> value.l
      [] value.k = "string" -> [i \in 1..Len(value.s) |-> SubSeq(value.s, i, i)]
      [] OTHER -> <<>>

\* (value || []).includes(option)
IsChecked(value, option) ==
    CASE value.k = "list" -> option \in Range(value.l)
      [] value.k = "string" -> Truthy(value) /\ Includes(value.s, option)
      [] OTHER -> FALSE

\* the values the widget of `question` can submit, given its current value
WidgetValues(question, value) ==
    CASE question.type = "single-choice" -> {Str(o) : o \in Range(question.options)}
      [] question.type = "multi-choice" ->
            {List(Spread(value) \o <<o>>) :
                o \in {x \in Range(question.options) : ~IsChecked(value, x)}}
            \cup {List(SelectSeq(value.l, LAMBDA v : v # o)) :
                o \in {x \in Range(question.options) : value.k = "list" /\ IsChecked(value, x)}}
      [] question.type \in {"short-text", "long-text"} -> {Str(t) : t \in TextInputs}
      [] question.type = "numeric" -> {Str(t) : t \in NumberInputs}
      [] OTHER -> {}

Answer ==
    /\ isPreviewVisible
    /\ \E section \in currentSection(assessment, currentSectionIndex) :
        \E j \in DOMAIN section.questions :
            /\ shouldShow(section.questions[j], responses)
            /\ \E value \in WidgetValues(section.questions[j],
                                         Lookup(responses, section.questions[j].id)) :
                updateResponse(section.questions[j].id, value)

\* the Next button
GoNext ==
    /\ navigationShown
    /\ currentSectionIndex < Len(assessment.sections) - 1
    /\ validationErrors' =
            validateCurrentSection(assessment, currentSectionIndex, responses, validationErrors).errors
    /\ currentSectionIndex' = goToNextSection(
            validateCurrentSection(assessment, currentSectionIndex, responses, validationErrors).ok,
            currentSectionIndex, Len(assessment.sections))
    /\ UNCHANGED <<responses, isTestMode>>
    /\ SessionFrame

\* the Submit button, shown in place of Next on the last section
Submit ==
    /\ navigationShown
    /\ ~(currentSectionIndex < Len(assessment.sections) - 1)
    /\ validationErrors' =
            validateCurrentSection(assessment, currentSectionIndex, responses, validationErrors).errors
    /\ consoleLog' =
            IF validateCurrentSection(assessment, currentSectionIndex, responses, validationErrors).ok
            THEN consoleLog \cup {"Assessment completed!"} ELSE consoleLog
    /\ UNCHANGED <<responses, currentSectionIndex, isTestMode>>
    /\ UNCHANGED editorVars /\ UNCHANGED isPreviewVisible /\ UNCHANGED harnessVars
    /\ UNCHANGED drafts

\* mutant: Previous validates the current section like Next does
GoPrevious_Validating ==
    /\ navigationShown
    /\ currentSectionIndex # 0
    /\ validationErrors' =
            validateCurrentSection(assessment, currentSectionIndex, responses, validationErrors).errors
    /\ currentSectionIndex' =
            IF validateCurrentSection(assessment, currentSectionIndex, responses, validationErrors).ok
            THEN goToPreviousSection(currentSectionIndex) ELSE currentSectionIndex
    /\ UNCHANGED <<responses, isTestMode>>
    /\ SessionFrame

\* the Previous button, disabled on the first section
GoPrevious ==
    /\ navigationShown
    /\ currentSectionIndex # 0
    /\ currentSectionIndex' = goToPreviousSection(currentSectionIndex)
    /\ UNCHANGED <<responses, isTestMode, validationErrors>>
    /\ SessionFrame

\* mutant: reset stays on the current section
resetPreview_KeepsIndex ==
    /\ isPreviewVisible
    /\ responses' = EmptyMap
    /\ validationErrors' = EmptyMap
    /\ isTestMode' = FALSE
    /\ UNCHANGED currentSectionIndex
    /\ SessionFrame

resetPreview ==
    /\ isPreviewVisible
    /\ responses' = EmptyMap
    /\ currentSectionIndex' = 0
    /\ validationErrors' = EmptyMap
    /\ isTestMode' = FALSE
    /\ SessionFrame

----------------------------------------------------------------------------
(* Specifications *)

\* the editor alone, the preview left untouched
NextEditor ==
    \/ Tick
    \/ AddNewSection
    \/ SidebarAddFirst
    \/ SidebarAddDeferred
    \/ SidebarAddQuestion
    \/ SectionAddQuestion
    \/ ToggleExpanded
    \/ DeleteSection
    \/ DuplicateSection
    \/ DeleteQuestion
    \/ SelectQuestion
    \/ ToggleRequired
    \/ DragEnd

SpecEditor == Init /\ [][NextEditor]_vars

\* the preview session, interleaved with the editor's section-level mutations
NextPreview ==
    \/ AddNewSection
    \/ DeleteSection
    \/ DuplicateSection
    \/ TogglePreviewVisible
    \/ ToggleTestMode
    \/ Answer
    \/ GoNext
    \/ Submit
    \/ GoPrevious
    \/ resetPreview

SpecPreview == InitPreview /\ [][NextPreview]_vars

\* the preview session, interleaved with edits of the sections and questions
\* it is showing
NextSession ==
    \/ AddNewSection
    \/ DeleteSection
    \/ DeleteQuestion
    \/ SelectQuestion
    \/ ToggleRequired
    \/ ToggleTestMode
    \/ Answer
    \/ GoNext
    \/ Submit
    \/ GoPrevious
    \/ resetPreview

SpecSession == InitPreview /\ [][NextSession]_vars

----------------------------------------------------------------------------
(* validateQuestion on its own: a question and a value drawn from bounded   *)
(* sets, then the call.  Values are what a response can hold (a string from *)
(* a widget, a list from the checkboxes, undefined for no answer) and null. *)

HarnessRules ==
    {NoValidation,
     {ValidationRule({}, {}, {0}, {50})}, {ValidationRule({}, {}, {1}, {})},
     {ValidationRule({}, {}, {}, {50})},
     {ValidationRule({2}, {3}, {}, {})}, {ValidationRule({2}, {}, {}, {})},
     {ValidationRule({}, {3}, {}, {})}}

HarnessQuestions ==
    {Question(<<"question", -1, 0>>, type, "Q", required, 0, rule, NoConditional, <<>>) :
        type \in QuestionTypes, required \in BOOLEAN, rule \in HarnessRules}

HarnessValues ==
    {Undefined, Null, Str(""), Str("0"), Str("ok"), Str("100"), Str("long answer"),
     Str("-1"), Str("50"), Str("51"), List(<<>>), List(<<"Option 1">>)}

InitValidate ==
    /\ stored = {SavedAssessment(<<>>)}
    /\ assessment = LoadSaved(SavedAssessment(<<>>))
    /\ autosave = autosaveEffect({}, LoadSaved(SavedAssessment(<<>>)))
    /\ consoleLog = {}
    /\ drafts = mount(assessment)
    /\ now = 0
    /\ selectedQuestion = {}
    /\ timers = <<>>
    /\ isPreviewVisible = TRUE
    /\ responses = EmptyMap
    /\ currentSectionIndex = 0
    /\ isTestMode = FALSE
    /\ validationErrors = EmptyMap
    /\ vQuestion \in HarnessQuestions
    /\ vValue \in HarnessValues
    /\ vResult = {}

Validate ==
    /\ vResult = {}
    /\ vResult' = {validateQuestion(vQuestion, vValue)}
    /\ UNCHANGED <<vQuestion, vValue>>
    /\ UNCHANGED editorVars /\ UNCHANGED isPreviewVisible /\ UNCHANGED sessionVars
    /\ UNCHANGED <<consoleLog, drafts>>

NextValidate == Validate

SpecValidate == InitValidate /\ [][NextValidate]_vars

----------------------------------------------------------------------------
(* Start-up and persistence: whatever is found under 'current-assessment',  *)
(* the loader, commits, the auto-save interval and page reloads.             *)

SampleQuestion(n, type, title, required, order, validation, options) ==
    Question(<<"question", n, 0>>, type, title, required, order, validation,
             NoConditional, options)

createSampleAssessment(t) ==
    [id |-> "sample-assessment-1", jobId |-> "job-frontend-developer",
     title |-> "Frontend Developer Assessment",
     description |-> "Comprehensive assessment for frontend developer candidates",
     sections |-> <<
        Section(<<"section", -11, 0>>, "Technical Skills", 0, <<
            SampleQuestion(-21, "single-choice",
                "How many years of JavaScript experience do you have?", TRUE, 0,
                NoValidation, <<"Less than 1 year", "1-2 years", "3-5 years", "5+ years">>),
            SampleQuestion(-22, "multi-choice",
                "Which frontend frameworks have you worked with?", TRUE, 1,
                NoValidation,
                <<"React", "Vue.js", "Angular", "Svelte", "Next.js", "Nuxt.js">>),
            SampleQuestion(-23, "long-text",
                "Describe a challenging technical problem you solved recently", TRUE, 2,
                {ValidationRule({100}, {1000}, {}, {})}, <<>>) >>, TRUE),
        Section(<<"section", -12, 0>>, "Professional Experience", 1, <<
            SampleQuestion(-24, "numeric",
                "Total years of professional development experience", TRUE, 0,
                {ValidationRule({}, {}, {0}, {50})}, <<>>),
            SampleQuestion(-25, "short-text", "Portfolio or GitHub URL", FALSE, 1,
                NoValidation, <<>>),
            SampleQuestion(-26, "file-upload", "Upload your resume", TRUE, 2,
                NoValidation, <<>>) >>, FALSE),
        Section(<<"section", -13, 0>>, "Culture & Values", 2, <<
            SampleQuestion(-27, "single-choice",
                "What work environment do you thrive in?", TRUE, 0, NoValidation,
                <<"Collaborative team environment",
                  "Independent work with minimal supervision",
                  "Mix of both collaboration and independent work",
                  "Highly structured with clear processes">>),
            SampleQuestion(-28, "long-text", "What motivates you as a developer?", TRUE, 1,
                {ValidationRule({50}, {500}, {}, {})}, <<>>) >>, FALSE) >>,
     createdAt |-> t, updatedAt |-> t]

\* stored text that JSON.parse rejects
Unparseable == [unparseable |-> TRUE]

\* stored text that parses to null, and to a number
JSONNull == [json |-> "null"]
JSONNumber == [json |-> "number"]

\* the stored text "{}"
EmptyObject == [f \in {} |-> <<>>]

IsJSONObject(parsed) == "json" \notin DOMAIN parsed /\ "unparseable" \notin DOMAIN parsed

\* the useState initializer: the assessment for the item under
\* 'current-assessment' (st = {} when there is none) at time t
initialAssessment(st, t) ==
    IF st = {} THEN createSampleAssessment(t)
    ELSE LET saved == CHOOSE x \in st : TRUE
         IN IF "unparseable" \in DOMAIN saved THEN createSampleAssessment(t)
            ELSE IF saved = JSONNull THEN createSampleAssessment(t)
            ELSE IF ~IsJSONObject(saved) THEN LoadSaved(EmptyObject)
            ELSE LoadSaved(saved)

\* the interval of the mounted hook; none when the first render threw
mountAutosave(a) == IF Renderable(a) THEN autosaveEffect({}, a) ELSE {}

Without(object, field) == [f \in DOMAIN object \ {field} |-> object[f]]

StartupItems ==
    {Unparseable, JSONNull, JSONNumber, EmptyObject,
     SavedAssessment(<<Experience(0)>>),
     Without(SavedAssessment(<<Experience(0)>>), "createdAt"),
     [SavedAssessment(<<Experience(0)>>) EXCEPT !.updatedAt = <<"text", 0>>],
     [SavedAssessment(<<Experience(0)>>) EXCEPT !.createdAt = <<"null", 0>>]}

StartupStores == {{}} \cup {{item} : item \in StartupItems}

InitStartup ==
    /\ stored \in StartupStores
    /\ now = 0
    /\ assessment = initialAssessment(stored, now)
    /\ autosave = mountAutosave(assessment)
    /\ consoleLog = {}
    /\ drafts = mount(assessment)
    /\ selectedQuestion = {}
    /\ timers = <<>>
    /\ isPreviewVisible = TRUE
    /\ responses = EmptyMap
    /\ currentSectionIndex = 0
    /\ isTestMode = FALSE
    /\ validationErrors = EmptyMap
    /\ vQuestion = HarnessIdle[1]
    /\ vValue = HarnessIdle[2]
    /\ vResult = HarnessIdle[3]

\* the page is closed and opened again: every component starts over from the
\* stored item
Reload ==
    /\ assessment' = initialAssessment(stored, now)
    /\ autosave' = mountAutosave(initialAssessment(stored, now))
    /\ consoleLog' = {}
    /\ drafts' = mount(initialAssessment(stored, now))
    /\ selectedQuestion' = {}
    /\ timers' = <<>>
    /\ isPreviewVisible' = TRUE
    /\ responses' = EmptyMap
    /\ currentSectionIndex' = 0
    /\ isTestMode' = FALSE
    /\ validationErrors' = EmptyMap
    /\ UNCHANGED <<stored, now>> /\ UNCHANGED harnessVars

\* the auto-save interval fires
AutosaveTick ==
    /\ \E a \in autosave : stored' = {JSONstringify(a)}
    /\ UNCHANGED <<assessment, now, selectedQuestion, timers, autosave>>
    /\ UNCHANGED <<isPreviewVisible, consoleLog, drafts>>
    /\ UNCHANGED sessionVars /\ UNCHANGED harnessVars

NextStartup ==
    \/ Tick
    \/ Reload
    \/ AutosaveTick
    \/ (Renderable(assessment) /\ AddNewSection)
    \/ (Renderable(assessment) /\ DeleteSection)
    \/ (Renderable(assessment) /\ ToggleExpanded)
    \/ (Renderable(assessment) /\ SidebarAddFirst)
    \/ (Renderable(assessment) /\ SidebarAddDeferred)

SpecStartup == InitStartup /\ [][NextStartup]_vars

----------------------------------------------------------------------------
(* The update and delete handlers called for an entity that is no longer in *)
(* the assessment: a section or question of the start-up blob that has been *)
(* deleted since.                                                            *)

VanishedSections(a) ==
    {g \in {Screening(0), Experience(1), Culture(2)} :
        \A s \in Range(a.sections) : s.id # g.id}

VanishedQuestions(a) ==
    {g \in {Q1, Q2, Q3} : \A q \in Range(AllQuestions(a)) : q.id # g.id}

\* updateSection of a vanished section's card
MissUpdateSection ==
    /\ \E g \in VanishedSections(assessment) :
        onUpdateAssessment(updateSectionExpanded(assessment, g.id, ~g.isExpanded))
    /\ UNCHANGED <<selectedQuestion, timers>>
    /\ EditorFrame

\* deleteSection of a vanished section's card
MissDeleteSection ==
    /\ \E g \in VanishedSections(assessment) :
        /\ onUpdateAssessment(deleteSection(assessment, g))
        /\ selectedQuestion' = deleteSectionSelection(selectedQuestion, g)
    /\ UNCHANGED timers
    /\ EditorFrame

\* updateQuestion of a vanished question: from its section's card (the section
\* still there) or from the sidebar form
MissUpdateQuestion ==
    /\ \E g \in VanishedQuestions(assessment) :
        \/ \E section \in Range(assessment.sections) :
                onUpdateAssessment(sectionUpdateQuestion(assessment, section, g.id, ~g.required))
        \/ onUpdateAssessment(sidebarUpdateQuestion(assessment, g.id, ~g.required))
    /\ UNCHANGED <<selectedQuestion, timers>>
    /\ EditorFrame

\* deleteQuestion of a vanished question, from its section's card
MissDeleteQuestion ==
    /\ \E g \in VanishedQuestions(assessment) :
        \E section \in Range(assessment.sections) :
            /\ onUpdateAssessment(deleteQuestion(assessment, section, g.id))
            /\ selectedQuestion' = deleteQuestionSelection(selectedQuestion, g.id)
    /\ UNCHANGED timers
    /\ EditorFrame

NextLookupMiss ==
    \/ Tick
    \/ AddNewSection
    \/ ToggleExpanded
    \/ DeleteSection
    \/ DeleteQuestion
    \/ SelectQuestion
    \/ MissUpdateSection
    \/ MissDeleteSection
    \/ MissUpdateQuestion
    \/ MissDeleteQuestion

SpecLookupMiss == Init /\ [][NextLookupMiss]_vars

----------------------------------------------------------------------------
(* renderQuestion's conditional switch on its own: a question whose          *)
(* conditional depends on Q1, a response map holding Q1's answer or nothing, *)
(* then the decision.                                                        *)

ConditionTags ==
    {"equals", "not-equals", "contains", "greater-than", "less-than", "starts-with"}

ConditionValues == {Str("yes"), Str("Java"), Num(5)}

HarnessConditionals ==
    {NoConditional} \cup
    {{ConditionalLogic(Q1.id, tag, value)} : tag \in ConditionTags, value \in ConditionValues}

HarnessDependents ==
    {Str("yes"), Str("no"), Str("Java"), Str("JavaScript"), Str("5"), Str("15"), Str(""),
     List(<<>>), List(<<"Java">>), List(<<"JavaScript">>), List(<<"yes", "Java">>)}

HarnessResponses ==
    {EmptyMap} \cup {MapPut(EmptyMap, Q1.id, value) : value \in HarnessDependents}

InitVisible ==
    /\ stored = {SavedAssessment(<<>>)}
    /\ assessment = LoadSaved(SavedAssessment(<<>>))
    /\ autosave = autosaveEffect({}, LoadSaved(SavedAssessment(<<>>)))
    /\ consoleLog = {}
    /\ drafts = mount(assessment)
    /\ now = 0
    /\ selectedQuestion = {}
    /\ timers = <<>>
    /\ isPreviewVisible = TRUE
    /\ responses \in HarnessResponses
    /\ currentSectionIndex = 0
    /\ isTestMode = FALSE
    /\ validationErrors = EmptyMap
    /\ vQuestion \in {[Q2 EXCEPT !.conditional = c] : c \in HarnessConditionals}
    /\ vValue = Undefined
    /\ vResult = {}

Render ==
    /\ vResult = {}
    /\ vResult' = {shouldShow(vQuestion, responses)}
    /\ UNCHANGED <<vQuestion, vValue>>
    /\ UNCHANGED editorVars /\ UNCHANGED isPreviewVisible /\ UNCHANGED sessionVars
    /\ UNCHANGED <<consoleLog, drafts>>

NextVisible == Render

SpecVisible == InitVisible /\ [][NextVisible]_vars

----------------------------------------------------------------------------
(* Inline editing of titles and the sidebar's inputs for the same fields *)

\* what the user types into an input
TypedTexts == {"Edited"}

InlineBlobs == {SavedAssessment(<<Experience(0)>>)}

InitInline == InitFrom(InlineBlobs)

\* an inline editor's setState without a commit
DraftFrame ==
    /\ UNCHANGED editorVars /\ UNCHANGED <<isPreviewVisible, consoleLog>>
    /\ UNCHANGED sessionVars /\ UNCHANGED harnessVars

\* an inline editor's save: the commit and setIsEditing(false) of one handler
SaveFrame ==
    /\ UNCHANGED <<selectedQuestion, timers, now, isPreviewVisible, consoleLog>>
    /\ UNCHANGED sessionVars /\ UNCHANGED harnessVars

\* the sidebar's Settings tab: the Assessment Title input
SettingsTitle ==
    /\ \E t \in TypedTexts :
        /\ t # assessment.title
        /\ onUpdateAssessment([assessment EXCEPT !.title = t])
    /\ UNCHANGED <<selectedQuestion, timers>>
    /\ EditorFrame

\* the sidebar's Settings tab: the Description textarea
SettingsDescription ==
    /\ \E t \in TypedTexts :
        /\ t # assessment.description
        /\ onUpdateAssessment([assessment EXCEPT !.description = t])
    /\ UNCHANGED <<selectedQuestion, timers>>
    /\ EditorFrame

\* the sidebar's Question Title input of the selected question
SidebarQuestionTitle ==
    /\ \E q \in selectedQuestionData(assessment, selectedQuestion) :
        \E t \in TypedTexts :
            /\ t # q.title
            /\ onUpdateAssessment(sidebarUpdateQuestionTitle(assessment, q.id, t))
    /\ UNCHANGED <<selectedQuestion, timers>>
    /\ EditorFrame

\* AssessmentHeader: the pencil next to the title
HeaderEditTitle ==
    /\ ~drafts.header.isEditingTitle
    /\ drafts' = [drafts EXCEPT !.header.isEditingTitle = TRUE]
    /\ DraftFrame

HeaderTypeTitle ==
    /\ drafts.header.isEditingTitle
    /\ \E t \in TypedTexts :
        /\ t # drafts.header.tempTitle
        /\ drafts' = [drafts EXCEPT !.header.tempTitle = t]
    /\ DraftFrame

\* Save, or Enter
HeaderSaveTitle ==
    /\ drafts.header.isEditingTitle
    /\ onUpdateAssessment(handleSaveTitle(assessment, drafts.header.tempTitle))
    /\ drafts' = render([drafts EXCEPT !.header.isEditingTitle = FALSE], assessment')
    /\ SaveFrame

\* handleCancelTitle: Cancel, or Escape
HeaderCancelTitle ==
    /\ drafts.header.isEditingTitle
    /\ drafts' = [drafts EXCEPT !.header.tempTitle = assessment.title,
                                !.header.isEditingTitle = FALSE]
    /\ DraftFrame

HeaderEditDescription ==
    /\ ~drafts.header.isEditingDescription
    /\ drafts' = [drafts EXCEPT !.header.isEditingDescription = TRUE]
    /\ DraftFrame

HeaderTypeDescription ==
    /\ drafts.header.isEditingDescription
    /\ \E t \in TypedTexts :
        /\ t # drafts.header.tempDescription
        /\ drafts' = [drafts EXCEPT !.header.tempDescription = t]
    /\ DraftFrame

HeaderSaveDescription ==
    /\ drafts.header.isEditingDescription
    /\ onUpdateAssessment(handleSaveDescription(assessment, drafts.header.tempDescription))
    /\ drafts' = render([drafts EXCEPT !.header.isEditingDescription = FALSE], assessment')
    /\ SaveFrame

\* handleCancelDescription
HeaderCancelDescription ==
    /\ drafts.header.isEditingDescription
    /\ drafts' = [drafts EXCEPT !.header.tempDescription = assessment.description,
                                !.header.isEditingDescription = FALSE]
    /\ DraftFrame

\* SectionBuilder: the pencil next to the section title
SectionEditTitle ==
    /\ \E id \in DOMAIN drafts.sections :
        /\ ~drafts.sections[id].isEditingTitle
        /\ drafts' = [drafts EXCEPT !.sections[id].isEditingTitle = TRUE]
    /\ DraftFrame

SectionTypeTitle ==
    /\ \E id \in DOMAIN drafts.sections :
        /\ drafts.sections[id].isEditingTitle
        /\ \E t \in TypedTexts :
            /\ t # drafts.sections[id].tempTitle
            /\ drafts' = [drafts EXCEPT !.sections[id].tempTitle = t]
    /\ DraftFrame

\* SectionBuilder.handleSaveTitle: Enter, or the input losing focus
SectionSaveTitle ==
    /\ \E id \in DOMAIN drafts.sections :
        /\ drafts.sections[id].isEditingTitle
        /\ onUpdateAssessment(updateSectionTitle(assessment, id, drafts.sections[id].tempTitle))
        /\ drafts' = render([drafts EXCEPT !.sections[id].isEditingTitle = FALSE], assessment')
    /\ SaveFrame

\* Escape in the section title input
SectionEscapeTitle ==
    /\ \E id \in DOMAIN drafts.sections :
        /\ drafts.sections[id].isEditingTitle
        /\ drafts' = [drafts EXCEPT
                        !.sections[id].tempTitle = Keyed(assessment.sections, id).title,
                        !.sections[id].isEditingTitle = FALSE]
    /\ DraftFrame

\* QuestionBuilder: the pencil next to the question title
QuestionEditTitle ==
    /\ \E id \in DOMAIN drafts.questions :
        /\ ~drafts.questions[id].isEditingTitle
        /\ drafts' = [drafts EXCEPT !.questions[id].isEditingTitle = TRUE]
    /\ DraftFrame

QuestionTypeTitle ==
    /\ \E id \in DOMAIN drafts.questions :
        /\ drafts.questions[id].isEditingTitle
        /\ \E t \in TypedTexts :
            /\ t # drafts.questions[id].tempTitle
            /\ drafts' = [drafts EXCEPT !.questions[id].tempTitle = t]
    /\ DraftFrame

\* the section card a mounted question card belongs to
CardSection(a, id) ==
    Keyed(SelectSeq(a.sections, LAMBDA s : s.isExpanded /\ \E q \in Range(s.questions) : q.id = id),
          CHOOSE sid \in {s.id : s \in {t \in Range(a.sections) :
                    t.isExpanded /\ \E q \in Range(t.questions) : q.id = id}} : TRUE)

\* QuestionBuilder.handleSaveTitle: Enter, or the input losing focus
QuestionSaveTitle ==
    /\ \E id \in DOMAIN drafts.questions :
        /\ drafts.questions[id].isEditingTitle
        /\ onUpdateAssessment(sectionUpdateQuestionTitle(assessment, CardSection(assessment, id),
                                                         id, drafts.questions[id].tempTitle))
        /\ drafts' = render([drafts EXCEPT !.questions[id].isEditingTitle = FALSE], assessment')
    /\ SaveFrame

\* Escape in the question title input
QuestionEscapeTitle ==
    /\ \E id \in DOMAIN drafts.questions :
        /\ drafts.questions[id].isEditingTitle
        /\ drafts' = [drafts EXCEPT
                        !.questions[id].tempTitle = Keyed(MountedQuestions(assessment), id).title,
                        !.questions[id].isEditingTitle = FALSE]
    /\ DraftFrame

NextInline ==
    \/ Tick
    \/ SelectQuestion
    \/ ToggleExpanded
    \/ SettingsTitle
    \/ SettingsDescription
    \/ SidebarQuestionTitle
    \/ HeaderEditTitle
    \/ HeaderTypeTitle
    \/ HeaderSaveTitle
    \/ HeaderCancelTitle
    \/ HeaderEditDescription
    \/ HeaderTypeDescription
    \/ HeaderSaveDescription
    \/ HeaderCancelDescription
    \/ SectionEditTitle
    \/ SectionTypeTitle
    \/ SectionSaveTitle
    \/ SectionEscapeTitle
    \/ QuestionEditTitle
    \/ QuestionTypeTitle
    \/ QuestionSaveTitle
    \/ QuestionEscapeTitle

SpecInline == InitInline /\ [][NextInline]_vars

----------------------------------------------------------------------------
(* Properties *)

SectionIds(a) == MapSeq(a.sections, LAMBDA s : s.id)

AllIds(a) == SectionIds(a) \o MapSeq(AllQuestions(a), LAMBDA q : q.id)

NoDuplicates(seq) == \A i, j \in DOMAIN seq : i # j => seq[i] # seq[j]

\* C1: every section's order is its zero-based position in assessment.sections
\* and every question's order is its zero-based position in its section.
C1_OrderIsPosition ==
    \A i \in DOMAIN assessment.sections :
        /\ assessment.sections[i].order = i - 1
        /\ \A j \in DOMAIN assessment.sections[i].questions :
            assessment.sections[i].questions[j].order = j - 1

\* C2: no two entities of the assessment (sections and questions, across all
\* sections) share an id.
C2_IdsUnique == NoDuplicates(AllIds(assessment))

\* C3: the selected-question pointer is null or the id of a question that
\* exists in some section.
C3_SelectionExists ==
    selectedQuestion = {}
    \/ \E q \in Range(AllQuestions(assessment)) : selectedQuestion = {q.id}

\* C4: when the deferred step of a sidebar add runs right after its first step
\* (the assessment is still the lone default section), the assessment afterwards
\* holds exactly one section with exactly one question of the chosen type and
\* order 0.
C4_SidebarAddAtomic ==
    [][(/\ SidebarAddDeferred
        /\ assessment.sections =
              <<Section(Head(timers).sectionId, "Section 1", 0, <<>>, TRUE)>>)
       => (/\ Len(assessment'.sections) = 1
           /\ Len(assessment'.sections[1].questions) = 1
           /\ assessment'.sections[1].questions[1].type = Head(timers).questionType
           /\ assessment'.sections[1].questions[1].order = 0)]_vars

\* arrayMove: the element at `from` taken out and put back at `to`
Move(s, from, to) ==
    LET without == [i \in 1..(Len(s) - 1) |-> IF i < from THEN s[i] ELSE s[i + 1]]
    IN [i \in 1..Len(s) |->
            IF i < to THEN without[i] ELSE IF i = to THEN s[from] ELSE without[i - 1]]

Renumber(s) == [i \in DOMAIN s |-> [s[i] EXCEPT !.order = i - 1]]

\* C5: a drag-end with two distinct section ids moves the active section to the
\* position of the target and renumbers the sections, each section keeping its
\* own questions ([A, B, C] with active C over A gives [C, A, B]).
C5_ReorderMoves ==
    [][\A i, k \in DOMAIN assessment.sections :
        (/\ i # k
         /\ NoDuplicates(SectionIds(assessment))
         /\ handleDragEnd(assessment.sections[i].id, {assessment.sections[k].id}))
        => assessment'.sections = Renumber(Move(assessment.sections, i, k))]_vars

ShownIds(section, resp) ==
    {q.id : q \in {x \in Range(section.questions) : shouldShow(x, resp)}}

\* C6: a validation pass (Next or Submit) gives no error entry to a question of
\* the current section that is not shown, and Next advances when every shown
\* question is valid.
C6_HiddenNotValidated ==
    [][\A section \in currentSection(assessment, currentSectionIndex) :
        /\ (GoNext \/ Submit) =>
                \A q \in Range(section.questions) :
                    q.id \notin ShownIds(section, responses)
                        => q.id \notin DOMAIN validationErrors'
        /\ (/\ GoNext
            /\ \A q \in Range(section.questions) :
                    shouldShow(q, responses)
                        => validateQuestion(q, Lookup(responses, q.id)) = NoError)
           => currentSectionIndex' = currentSectionIndex + 1]_vars

Failing(section, resp) ==
    {j \in DOMAIN section.questions :
        validateQuestion(section.questions[j], Lookup(resp, section.questions[j].id)) # NoError}

Min(a, b) == IF a < b THEN a ELSE b

\* C7: Next with a failing question in the current section leaves the index
\* unchanged and sets the error map to exactly the failing questions' errors;
\* Next with none moves the index to min(index + 1, N - 1); and no step at all
\* raises the index while a question of the current section fails.
C7_GoNextGate ==
    [][\A section \in currentSection(assessment, currentSectionIndex) :
        /\ GoNext =>
            IF Failing(section, responses) # {}
            THEN /\ currentSectionIndex' = currentSectionIndex
                 /\ DOMAIN validationErrors' =
                        {section.questions[j].id : j \in Failing(section, responses)}
                 /\ \A id \in DOMAIN validationErrors' :
                        \E j \in Failing(section, responses) :
                            /\ section.questions[j].id = id
                            /\ validationErrors'[id] =
                                  validateQuestion(section.questions[j], Lookup(responses, id))
            ELSE currentSectionIndex' =
                    Min(currentSectionIndex + 1, Len(assessment.sections) - 1)
        /\ currentSectionIndex' > currentSectionIndex
                => Failing(section, responses) = {}]_vars

\* C7 witness: a blocked Next: test mode, not the last section, and the error
\* map holds exactly the errors of the current section's failing questions.
C7_Blocked ==
    /\ isTestMode
    /\ currentSectionIndex < Len(assessment.sections) - 1
    /\ validationErrors # EmptyMap
    /\ \E section \in currentSection(assessment, currentSectionIndex) :
        DOMAIN validationErrors =
            {section.questions[j].id : j \in Failing(section, responses)}

IsBounded0to50(q) ==
    /\ q.type = "numeric"
    /\ q.required
    /\ q.validation = {ValidationRule({}, {}, {0}, {50})}

\* C8: Next on a section with a required numeric question bounded [0,50] that
\* holds "100" does not advance and leaves the at-most-50 error on it; Next on a
\* section whose questions all hold valid values (that question holding "25")
\* advances and leaves the error map empty, whatever errors an earlier failed
\* Next had left.
C8_Recoverable ==
    [][GoNext =>
        \A section \in currentSection(assessment, currentSectionIndex) :
            /\ \A q \in Range(section.questions) :
                (IsBounded0to50(q) /\ Lookup(responses, q.id) = Str("100"))
                    => /\ currentSectionIndex' = currentSectionIndex
                       /\ q.id \in DOMAIN validationErrors'
                       /\ validationErrors'[q.id] = MaxValueError(50)
            /\ (\A q \in Range(section.questions) :
                    \/ IsBounded0to50(q) /\ Lookup(responses, q.id) = Str("25")
                    \/ validateQuestion(q, Lookup(responses, q.id)) = NoError)
                => /\ currentSectionIndex' = currentSectionIndex + 1
                   /\ validationErrors' = EmptyMap]_vars

\* C8 witness: the failed attempt: the bounded question holds "100" and the
\* error map carries its at-most-50 error, the index still on its section.
C8_Failed ==
    /\ isTestMode
    /\ Q3.id \in DOMAIN validationErrors
    /\ validationErrors[Q3.id] = MaxValueError(50)
    /\ Lookup(responses, Q3.id) = Str("100")
    /\ \E section \in currentSection(assessment, currentSectionIndex) :
        Q3 \in Range(section.questions)

\* C9: whenever the assessment has N > 0 sections, currentSectionIndex lies in
\* 0..N-1.
C9_IndexInRange ==
    Len(assessment.sections) > 0
        => currentSectionIndex \in 0..(Len(assessment.sections) - 1)

\* C10: validate returns the required error exactly when the question is
\* required and the value is undefined, null, the empty string or the empty
\* list; a required short-text question with no rule accepts every non-empty
\* string.
C10_RequiredExactly ==
    vResult # {} =>
        /\ (vResult = {RequiredError})
              <=> (vQuestion.required /\ vValue \in {Undefined, Null, Str(""), List(<<>>)})
        /\ (/\ vQuestion.type = "short-text"
            /\ vQuestion.required
            /\ vQuestion.validation = NoValidation
            /\ vValue.k = "string"
            /\ vValue.s # "")
           => vResult = {NoError}

\* C10 witness: a required short-text question given the empty string was
\* validated and got the required error.
C10_EmptyRejected ==
    /\ vResult = {RequiredError}
    /\ vQuestion.type = "short-text"
    /\ vQuestion.validation = NoValidation
    /\ vValue = Str("")

EmptyValues == {Undefined, Null, Str(""), List(<<>>)}

\* C11: for a numeric question with a rule, a value that passes the required
\* check is coerced to a number: below minValue gives the error naming minValue,
\* above maxValue the error naming maxValue, anything else (the bounds
\* themselves, a value that is not a number, an absent bound) no error.  With
\* [0,50], "-1" and "51" are rejected and "0" and "50" accepted.
C11_NumericBounds ==
    (/\ vResult # {}
     /\ vQuestion.type = "numeric"
     /\ vQuestion.validation # {}
     /\ ~(vQuestion.required /\ vValue \in EmptyValues))
    => LET rule == CHOOSE r \in vQuestion.validation : TRUE
           number == ToNumber(vValue)
           below == \E m \in rule.minValue : \E n \in number : n < m
           above == \E m \in rule.maxValue : \E n \in number : n > m
       IN /\ below => vResult = {MinValueError(m) : m \in rule.minValue}
          /\ (above /\ ~below) => vResult = {MaxValueError(m) : m \in rule.maxValue}
          /\ (~below /\ ~above) => vResult = {NoError}
          /\ rule = ValidationRule({}, {}, {0}, {50}) =>
                /\ vValue = Str("-1") => vResult = {MinValueError(0)}
                /\ vValue = Str("51") => vResult = {MaxValueError(50)}
                /\ vValue \in {Str("0"), Str("50")} => vResult = {NoError}

\* C11 witness: "51" against [0,50] was validated and got the at-most-50 error.
C11_AboveRejected ==
    /\ vResult = {MaxValueError(50)}
    /\ vQuestion.type = "numeric"
    /\ vQuestion.validation = {ValidationRule({}, {}, {0}, {50})}
    /\ vValue = Str("51")

\* C12: a non-required short-text or long-text question whose rule has
\* minLength > 0 gets no error for undefined, null or the empty string.
C12_EmptyOptionalPasses ==
    (/\ vResult # {}
     /\ vQuestion.type \in {"short-text", "long-text"}
     /\ ~vQuestion.required
     /\ \E r \in vQuestion.validation : \E m \in r.minLength : m > 0
     /\ vValue \in {Undefined, Null, Str("")})
    => vResult = {NoError}

\* C13: for a short-text or long-text question with a rule and a non-empty
\* string, required or not: shorter than minLength gives the error naming
\* minLength, longer than maxLength the error naming maxLength, within both
\* bounds no error.
C13_LengthBounds ==
    (/\ vResult # {}
     /\ vQuestion.type \in {"short-text", "long-text"}
     /\ vQuestion.validation # {}
     /\ vValue.k = "string"
     /\ vValue # Str(""))
    => LET rule == CHOOSE r \in vQuestion.validation : TRUE
           short == \E m \in rule.minLength : Len(vValue.s) < m
           long == \E m \in rule.maxLength : Len(vValue.s) > m
       IN /\ short => vResult = {MinLengthError(m) : m \in rule.minLength}
          /\ long => vResult = {MaxLengthError(m) : m \in rule.maxLength}
          /\ (~short /\ ~long) => vResult = {NoError}

\* C13 witness: a required long-text question bounded [2,3] was given an
\* eleven-character answer and got the at-most-3 error.
C13_TooLong ==
    /\ vResult = {MaxLengthError(3)}
    /\ vQuestion.type = "long-text"
    /\ vQuestion.required
    /\ vQuestion.validation = {ValidationRule({2}, {3}, {}, {})}
    /\ vValue = Str("long answer")

\* C14: a question is visible when it has no conditional; for equals, exactly
\* when the dependent response is a value of the same type and content as
\* conditional.value (so never when the dependent question is unanswered); for
\* not-equals, exactly when it is not; for every tag other than equals,
\* not-equals and contains, always.
C14_VisibilityDecision ==
    vResult # {} =>
        /\ vQuestion.conditional = NoConditional => vResult = {TRUE}
        /\ \A c \in vQuestion.conditional :
            LET same == /\ c.dependsOn \in DOMAIN responses
                        /\ responses[c.dependsOn].k = c.value.k
                        /\ responses[c.dependsOn] = c.value
            IN /\ c.condition = "equals" => vResult = {same}
               /\ c.condition = "not-equals" => vResult = {~same}
               /\ c.condition \notin {"equals", "not-equals", "contains"} => vResult = {TRUE}

\* C14 witness: an equals-"yes" question was decided invisible while the
\* dependent question is unanswered.
C14_UnansweredHidden ==
    /\ vResult = {FALSE}
    /\ vQuestion.conditional = {ConditionalLogic(Q1.id, "equals", Str("yes"))}
    /\ responses = EmptyMap

\* C15: for contains, when the dependent response is a list the question is
\* visible exactly when some element of the list equals conditional.value; when
\* it is not a list, exactly when the response's string form has
\* conditional.value's string form as a substring.
C15_ContainsDecision ==
    vResult # {} =>
        \A c \in vQuestion.conditional :
            c.condition = "contains" =>
                LET dep == Lookup(responses, c.dependsOn)
                IN IF dep.k = "list"
                   THEN vResult = {\E i \in DOMAIN dep.l : Str(dep.l[i]) = c.value}
                   ELSE vResult = {Includes(IF dep.k = "undefined" THEN "" ELSE JSString(dep),
                                            JSString(c.value))}

\* C16: an answer step changes the response map at one question id only,
\* removes that id from the error map and nothing else, adds no error entry,
\* and leaves currentSectionIndex alone.
C16_AnswerFrame ==
    [][Answer =>
        \E section \in currentSection(assessment, currentSectionIndex) :
            \E q \in Range(section.questions) :
                /\ DOMAIN responses' = DOMAIN responses \cup {q.id}
                /\ responses'[q.id] \in WidgetValues(q, Lookup(responses, q.id))
                /\ \A k \in DOMAIN responses \ {q.id} : responses'[k] = responses[k]
                /\ DOMAIN validationErrors' = DOMAIN validationErrors \ {q.id}
                /\ \A k \in DOMAIN validationErrors' : validationErrors'[k] = validationErrors[k]
                /\ currentSectionIndex' = currentSectionIndex]_vars

\* C16 witness: Q1 has been answered and carries no error while the error of
\* the unanswered Q2 is still in the error map.
C16_OtherErrorKept ==
    /\ isTestMode
    /\ Q1.id \in DOMAIN responses
    /\ Q1.id \notin DOMAIN validationErrors
    /\ Q2.id \in DOMAIN validationErrors
    /\ Q2.id \notin DOMAIN responses

Max(a, b) == IF a > b THEN a ELSE b

\* C17: a Previous step sets currentSectionIndex to max(index - 1, 0) and leaves
\* the response map and the error map as they were, whatever the current
\* section's answers are.
C17_GoPreviousFrame ==
    [][GoPrevious =>
        /\ currentSectionIndex' = Max(currentSectionIndex - 1, 0)
        /\ responses' = responses
        /\ validationErrors' = validationErrors]_vars

\* C17 witness: back on the first section (Experience) with the error of Q2, a
\* question of the second section, still in the error map: Previous was taken
\* from a section that had just failed validation.
C17_BackWithErrors ==
    /\ currentSectionIndex = 0
    /\ Len(assessment.sections) > 1
    /\ assessment.sections[1].id = Experience(0).id
    /\ Q2 \in Range(assessment.sections[2].questions)
    /\ Q2.id \in DOMAIN validationErrors

\* C18: a reset step ends with an empty response map, an empty error map,
\* currentSectionIndex 0 and test mode off, the assessment unchanged.
C18_ResetClears ==
    [][resetPreview =>
        /\ responses' = EmptyMap
        /\ validationErrors' = EmptyMap
        /\ currentSectionIndex' = 0
        /\ isTestMode' = FALSE
        /\ assessment' = assessment]_vars

\* C18 witness: a session with everything reset has to clear: test mode on, on
\* the second section, with answers and with errors.
C18_DirtySession ==
    /\ isTestMode
    /\ currentSectionIndex > 0
    /\ responses # EmptyMap
    /\ validationErrors # EmptyMap

\* C19: progress is 100 times the number of distinct ids that are keys of the
\* response map over the number of questions of all sections, whether or not
\* those answers are shown or valid, and 0 when there is no question.
C19_ProgressIsKeyRatio ==
    progress(assessment, responses) =
        IF Len(AllQuestions(assessment)) = 0 THEN Ratio(0, 1)
        ELSE Ratio(100 * Cardinality({id \in DOMAIN responses : TRUE}),
                   Len(AllQuestions(assessment)))

\* C19 witness: the response map holds an empty answer for Q2 while Q2 is not
\* shown, and that key counts towards progress.
C19_HiddenCounts ==
    /\ Q2.id \in DOMAIN responses
    /\ responses[Q2.id] = Str("")
    /\ Q2 \in Range(AllQuestions(assessment))
    /\ ~shouldShow(Q2, responses)
    /\ progress(assessment, responses) =
            Ratio(100 * Cardinality(DOMAIN responses), Len(AllQuestions(assessment)))

\* C20: every step that changes the assessment leaves updatedAt at the time of
\* the step and createdAt and id as they were, and updatedAt never decreases.
C20_UpdatedAtRefreshed ==
    [][assessment' # assessment =>
        /\ assessment'.updatedAt = now
        /\ assessment'.createdAt = assessment.createdAt
        /\ assessment'.id = assessment.id
        /\ assessment'.updatedAt >= assessment.updatedAt]_vars

\* C20 witness: an edit was committed after the clock moved: updatedAt is the
\* current time and later than createdAt.
C20_Stamped ==
    /\ now > 0
    /\ assessment.updatedAt = now
    /\ assessment.createdAt < now

EntityIds(section) == <<section.id>> \o MapSeq(section.questions, LAMBDA q : q.id)

\* C22: a duplicate step appends exactly one section: order the previous number
\* of sections, title the original's followed by " (Copy)", as many questions
\* as the original, each equal to its original but for the id; the copy's
\* section id and question ids are pairwise distinct and none is an id of the
\* original; the sections that were there, the original included, are unchanged.
C22_DuplicateIsFreshCopy ==
    [][DuplicateSection =>
        \E i \in DOMAIN assessment.sections :
            LET original == assessment.sections[i]
                copy == assessment'.sections[Len(assessment.sections) + 1]
            IN /\ Len(assessment'.sections) = Len(assessment.sections) + 1
               /\ SubSeq(assessment'.sections, 1, Len(assessment.sections)) = assessment.sections
               /\ copy.order = Len(assessment.sections)
               /\ copy.title = original.title \o " (Copy)"
               /\ Len(copy.questions) = Len(original.questions)
               /\ \A j \in DOMAIN copy.questions :
                    [copy.questions[j] EXCEPT !.id = original.questions[j].id]
                        = original.questions[j]
               /\ NoDuplicates(EntityIds(copy))
               /\ Range(EntityIds(copy)) \cap Range(EntityIds(original)) = {}]_vars

\* C26: every conditional.dependsOn names a question present in some section.
C26_DependsOnExists ==
    \A q \in Range(AllQuestions(assessment)) :
        \A c \in q.conditional :
            \E d \in Range(AllQuestions(assessment)) : d.id = c.dependsOn

Complete == "Assessment completed!" \in consoleLog

\* C27: Submit validates the last section; when a question fails the error map
\* is set to the failures and nothing is completed; when none fails the session
\* is complete; and a complete session is terminal: its response map, index and
\* error map no longer change, so the response map at completion is the final
\* one and a complete session is told apart from one in progress.
C27_SubmitCompletes ==
    [][/\ Submit =>
            \A section \in currentSection(assessment, currentSectionIndex) :
                IF Failing(section, responses) # {}
                THEN /\ DOMAIN validationErrors' =
                            {section.questions[j].id : j \in Failing(section, responses)}
                     /\ consoleLog' = consoleLog
                ELSE Complete'
       /\ Complete =>
            /\ responses' = responses
            /\ currentSectionIndex' = currentSectionIndex
            /\ validationErrors' = validationErrors]_vars

\* C23: whenever the stored item is the serialization of the in-memory
\* assessment (what a commit stores), loading it gives back that assessment:
\* id, jobId, title, description, sections and both timestamps.
C23_RoundTrip ==
    stored = {JSONstringify(assessment)} => initialAssessment(stored, now) = assessment

Malformed(timestamp) == timestamp[1] # "iso"

\* C24: for a stored object with sections whose createdAt or updatedAt is
\* missing or not a timestamp, loading gives that field the load time, takes a
\* well-formed timestamp as it is, and takes every other field from the blob.
C24_TimestampFallback ==
    \A saved \in stored :
        (IsJSONObject(saved) /\ "sections" \in DOMAIN saved) =>
            /\ DOMAIN initialAssessment(stored, now) = DOMAIN saved \cup {"createdAt", "updatedAt"}
            /\ \A f \in DOMAIN saved \ {"createdAt", "updatedAt"} :
                    initialAssessment(stored, now)[f] = saved[f]
            /\ \A f \in {"createdAt", "updatedAt"} :
                    initialAssessment(stored, now)[f] =
                        IF Malformed(Field(saved, f)) THEN now ELSE Field(saved, f)[2]

\* C25: when nothing is stored, or the stored text does not parse, or it
\* parses to something that is not an object with sections, start-up yields the
\* sample assessment.
C25_FallbackToSample ==
    (\A saved \in stored : ~(IsJSONObject(saved) /\ "sections" \in DOMAIN saved))
        => initialAssessment(stored, now) = createSampleAssessment(now)

\* C28: after every auto-save tick and every step that changes the in-memory
\* assessment (a reload aside), the stored item is the serialization of the
\* in-memory assessment.
C28_StoreIsCurrent ==
    [][(~Reload /\ (AutosaveTick \/ assessment' # assessment))
        => stored' = {JSONstringify(assessment')}]_vars

\* C28 witness: nothing was stored at start-up, and the store now holds the
\* serialization of the sample assessment in memory, after the clock moved and
\* with a section deleted.
C28_Autosaved ==
    /\ now > 0
    /\ Renderable(assessment)
    /\ assessment.id = "sample-assessment-1"
    /\ Len(assessment.sections) = 2
    /\ stored = {JSONstringify(assessment)}

\* C29: while an inline edit is closed, opening it and saving without typing
\* hands the commit the assessment as it is, for the assessment's title and
\* description, every section title and every question title, whatever edits
\* of the field came before through the sidebar's inputs.
C29_SaveWithoutTypingIsNoOp ==
    /\ ~drafts.header.isEditingTitle
        => handleSaveTitle(assessment, drafts.header.tempTitle) = assessment
    /\ ~drafts.header.isEditingDescription
        => handleSaveDescription(assessment, drafts.header.tempDescription) = assessment
    /\ \A id \in DOMAIN drafts.sections :
        ~drafts.sections[id].isEditingTitle
            => updateSectionTitle(assessment, id, drafts.sections[id].tempTitle) = assessment
    /\ \A id \in DOMAIN drafts.questions :
        ~drafts.questions[id].isEditingTitle
            => sectionUpdateQuestionTitle(assessment, CardSection(assessment, id), id,
                                          drafts.questions[id].tempTitle) = assessment

\* C30: every key of the response map is the id of a question of the
\* assessment, so progress never exceeds 100%, also after questions or
\* sections that were answered have been deleted.
C30_ResponsesAreQuestions ==
    /\ \A id \in DOMAIN responses : \E q \in Range(AllQuestions(assessment)) : q.id = id
    /\ progress(assessment, responses)[1] <= 100 * progress(assessment, responses)[2]

============================================================================
